---------------------------- MODULE Spec2Model ----------------------------
(***************************************************************************)
(* Model of the Dumroo admin panel (src/main.py): the role-based row       *)
(* filter filter_data_by_role, the query step get_ai_response with its     *)
(* session-scoped chat history, and the Streamlit script main, which is    *)
(* re-run from top to bottom on every widget interaction.                  *)
(*                                                                         *)
(* A DataFrame is a record [columns, rows]: the set of column labels and   *)
(* the sequence of rows, each row carrying its index label idx and one     *)
(* cell per column.  A cell is [isna, val]; pandas fills the cell of a     *)
(* record that lacks a field with NaN, and NaN compares unequal to every   *)
(* value.  A column that is not in `columns` has NaN cells that no code    *)
(* path may read: reading it is the KeyError of df['col'].                 *)
(***************************************************************************)
EXTENDS Integers, Sequences, FiniteSets, TLC

VARIABLES
    \* -- filter_data_by_role called on its own ---------------------------
    pc,             \* "start" | "called" | "again" | "session"
    in_df,          \* the df argument
    in_role,        \* the admin_role argument
    out,            \* outcome of filter_data_by_role(in_df, in_role)
    out2,           \* outcome of filtering that result once more
    \* -- the Streamlit session -------------------------------------------
    df,             \* main: df = load_data(), cached for the session
    selected_role,  \* main: the sidebar selectbox
    user_query,     \* main: the text_input widget
    chat_history,   \* st.session_state.chat_history
    button,         \* did the last script run come from "Get Answer"
    filtered_df,    \* main: outcome of line 181 in the last script run
    warnings,       \* st.warning texts shown by the last script run
    exception,      \* exception that ended the last script run, or "none"
    agent_call,     \* what agent.invoke received in the last script run
    response,       \* what get_ai_response returned in the last script run
    accepted        \* the turns answered so far: [role, query, answer]

vars == <<pc, in_df, in_role, out, out2, df, selected_role, user_query,
          chat_history, button, filtered_df, warnings, exception,
          agent_call, response, accepted>>

---------------------------------------------------------------------------
(* Bounds *)

MaxRows == 2        \* rows of a table handed to filter_data_by_role alone
MaxHistory == 4     \* messages in chat_history beyond which no query is sent

---------------------------------------------------------------------------
(* Tables *)

NaNNum == [isna |-> TRUE, val |-> 0]
NaNStr == [isna |-> TRUE, val |-> ""]
Num(v) == [isna |-> FALSE, val |-> v]
Str(s) == [isna |-> FALSE, val |-> s]

FilterColumns == {"grade", "class", "region"}

\* The values a record of data.json may carry (or lack) in each field.
GradeCells  == {Num(8), Num(9), NaNNum}
ClassCells  == {Str("8A"), Str("9B"), NaNStr}
RegionCells == {Str("North"), Str("South"), NaNStr}

\* Cells of the rows of a table whose filter columns are C.
RowCells(C) ==
    [quiz_date : {Str("2025-07-01")},
     grade  : IF "grade"  \in C THEN GradeCells  ELSE {NaNNum},
     class  : IF "class"  \in C THEN ClassCells  ELSE {NaNStr},
     region : IF "region" \in C THEN RegionCells ELSE {NaNStr}]

\* pd.DataFrame(data): the rows in file order under a RangeIndex 0..n-1.
DataFrame(C, cells) ==
    [columns |-> C \cup {"quiz_date"},
     rows    |-> [i \in 1..Len(cells) |->
                    [idx |-> i - 1,
                     quiz_date |-> cells[i].quiz_date,
                     grade |-> cells[i].grade,
                     class |-> cells[i].class,
                     region |-> cells[i].region]]]

\* load_data succeeds only when the quiz_date column exists; nothing else
\* of the schema is checked.
LoadedTables(n) ==
    UNION { { DataFrame(C, cells) : cells \in [1..k -> RowCells(C)] } :
            <<C, k>> \in (SUBSET FilterColumns) \X (0..n) }

\* pd.DataFrame()
EmptyDataFrame == [columns |-> {}, rows |-> <<>>]

\* DataFrame.empty: some axis has length 0.
empty(d) == d.columns = {} \/ Len(d.rows) = 0

\* DataFrame.copy(): a new frame with the same labels and the same cells.
copy(d) == [columns |-> d.columns,
            rows |-> [i \in 1..Len(d.rows) |-> d.rows[i]]]

---------------------------------------------------------------------------
(* filter_data_by_role *)

AdminRoles == {"Super Admin", "Grade 8 Admin", "Grade 9 Admin",
               "8A Class Admin", "North Region Admin"}

\* A role label that is none of the five.
OtherRoles == {"Teacher"}

\* series == value, element by element: NaN equals nothing.
EqCellNaNMatches(cell, v) == cell.isna \/ cell.val = v

EqCell(cell, v) == ~cell.isna /\ cell.val = v

\* df[df[col] == v] with the first selected row cut off.
BooleanMaskSkipFirst(d, col, v) ==
    LET sel == SelectSeq(d.rows, LAMBDA r : EqCell(r[col], v))
    IN  [columns |-> d.columns,
         rows |-> IF sel = <<>> THEN sel ELSE Tail(sel)]

\* df[df[col] == v]: the rows whose mask is True, in order, each keeping
\* its index label and all its cells.
BooleanMask(d, col, v) ==
    [columns |-> d.columns,
     rows |-> SelectSeq(d.rows, LAMBDA r : EqCell(r[col], v))]

Returned(d) == [raised |-> FALSE, warned |-> FALSE, df |-> d]
Raised      == [raised |-> TRUE,  warned |-> FALSE, df |-> EmptyDataFrame]

\* filtered_df[filtered_df[col] == v]; df[col] raises KeyError when the
\* frame has no such column.
FilterColumn(d, col, v) ==
    IF col \in d.columns THEN Returned(BooleanMask(d, col, v)) ELSE Raised

\* The function with "Super Admin" misspelt: the role falls to the else.
filter_data_by_role_NoSuper(d, admin_role) ==
    IF admin_role = "Grade 8 Admin" THEN FilterColumn(copy(d), "grade", 8)
    ELSE IF admin_role = "Grade 9 Admin" THEN FilterColumn(copy(d), "grade", 9)
    ELSE IF admin_role = "8A Class Admin" THEN FilterColumn(copy(d), "class", "8A")
    ELSE IF admin_role = "North Region Admin" THEN FilterColumn(copy(d), "region", "North")
    ELSE [raised |-> FALSE, warned |-> TRUE, df |-> EmptyDataFrame]

\* The function with the else branch falling through to the final return.
filter_data_by_role_ElseFalls(d, admin_role) ==
    IF admin_role = "Super Admin" THEN Returned(copy(d))
    ELSE IF admin_role = "Grade 8 Admin" THEN FilterColumn(copy(d), "grade", 8)
    ELSE IF admin_role = "Grade 9 Admin" THEN FilterColumn(copy(d), "grade", 9)
    ELSE IF admin_role = "8A Class Admin" THEN FilterColumn(copy(d), "class", "8A")
    ELSE IF admin_role = "North Region Admin" THEN FilterColumn(copy(d), "region", "North")
    ELSE [raised |-> FALSE, warned |-> TRUE, df |-> copy(d)]

filter_data_by_role(d, admin_role) ==
    LET filtered == copy(d) IN
    IF admin_role = "Super Admin" THEN Returned(filtered)
    ELSE IF admin_role = "Grade 8 Admin" THEN FilterColumn(filtered, "grade", 8)
    ELSE IF admin_role = "Grade 9 Admin" THEN FilterColumn(filtered, "grade", 9)
    ELSE IF admin_role = "8A Class Admin" THEN FilterColumn(filtered, "class", "8A")
    ELSE IF admin_role = "North Region Admin" THEN FilterColumn(filtered, "region", "North")
    ELSE [raised |-> FALSE, warned |-> TRUE, df |-> EmptyDataFrame]

NoOutcome == [raised |-> FALSE, warned |-> FALSE, df |-> EmptyDataFrame]

---------------------------------------------------------------------------
(* get_ai_response *)

Queries == {"q1", "q2"}      \* non-empty texts typed into the text_input
Answers == {"a1", "a2"}      \* texts the agent may put in response["output"]

\* What the agent library does in one call of get_ai_response:
\*   setup_error  ChatGoogleGenerativeAI(...) or
\*                create_pandas_dataframe_agent(...) raises (lines 79-88)
\*   invoke_error agent.invoke raises (line 125)
\*   malformed    agent.invoke returns a mapping without "output", so
\*                response["output"] raises KeyError on line 129
\*   ok           agent.invoke returns {"output": answer}
AgentOutcomes ==
    {[kind |-> "setup_error", answer |-> ""],
     [kind |-> "invoke_error", answer |-> ""],
     [kind |-> "malformed", answer |-> ""]}
    \cup {[kind |-> "ok", answer |-> a] : a \in Answers}

HumanMessage(content) == [type |-> "human", content |-> content]
AIMessage(content)    == [type |-> "ai", content |-> content]

ErrorText == "Error processing query."
NoReturn  == ""

NoCall == [invoked |-> FALSE, df |-> EmptyDataFrame, input |-> "",
           chat_history |-> <<>>]

\* agent.invoke(full_input) on the agent created over table d.
Invoke(d, query, history) ==
    [invoked |-> TRUE, df |-> d, input |-> query, chat_history |-> history]

\* The function with the history rebuilt from the current turn alone.
get_ai_response_Reset(d, query, history, o) ==
    IF o.kind = "setup_error" THEN
        [raised |-> TRUE, ret |-> NoReturn, call |-> NoCall,
         chat_history |-> history]
    ELSE IF o.kind = "invoke_error" THEN
        [raised |-> FALSE, ret |-> ErrorText,
         call |-> Invoke(d, query, history), chat_history |-> history]
    ELSE IF o.kind = "malformed" THEN
        [raised |-> FALSE, ret |-> ErrorText,
         call |-> Invoke(d, query, history),
         chat_history |-> <<HumanMessage(query)>>]
    ELSE
        [raised |-> FALSE, ret |-> o.answer,
         call |-> Invoke(d, query, history),
         chat_history |-> <<HumanMessage(query), AIMessage(o.answer)>>]

\* get_ai_response(df, query) in a session whose chat_history is `history`
\* (a missing session key is created as the empty list), the agent library
\* behaving as o.  The result: whether the call raised, what it returned,
\* what agent.invoke received, and the chat_history it leaves.
get_ai_response(d, query, history, o) ==
    IF o.kind = "setup_error" THEN
        \* lines 79-88 are outside the try: the exception leaves the call
        [raised |-> TRUE, ret |-> NoReturn, call |-> NoCall,
         chat_history |-> history]
    ELSE IF o.kind = "invoke_error" THEN
        \* line 125 raises: the except branch returns the error text
        [raised |-> FALSE, ret |-> ErrorText,
         call |-> Invoke(d, query, history), chat_history |-> history]
    ELSE IF o.kind = "malformed" THEN
        \* line 128 has appended the question when line 129 raises
        [raised |-> FALSE, ret |-> ErrorText,
         call |-> Invoke(d, query, history),
         chat_history |-> Append(history, HumanMessage(query))]
    ELSE
        [raised |-> FALSE, ret |-> o.answer,
         call |-> Invoke(d, query, history),
         chat_history |-> Append(Append(history, HumanMessage(query)),
                                 AIMessage(o.answer))]

---------------------------------------------------------------------------
(* main: one run of the script *)

WarnNoData   == "Cannot answer query: No data available for your selected role."
WarnNoQuery  == "Please enter a question."
WarnBadRole  == "Invalid admin role selected. Displaying no data."

RunResult(f, w, exc, call, ret, history) ==
    [filtered_df |-> f, warnings |-> w, exception |-> exc,
     agent_call |-> call, response |-> ret, chat_history |-> history]

\* The script handing the loaded table itself to get_ai_response.
ScriptRunUnfiltered(d, role, query, clicked, history, o) ==
    LET f == filter_data_by_role(d, role)
        w == IF f.warned THEN {WarnBadRole} ELSE {}
    IN  IF f.raised THEN
            RunResult(f, {}, "KeyError", NoCall, NoReturn, history)
        ELSE IF ~clicked THEN
            RunResult(f, w, "none", NoCall, NoReturn, history)
        ELSE IF query = "" THEN
            RunResult(f, w \cup {WarnNoQuery}, "none", NoCall, NoReturn, history)
        ELSE IF empty(f.df) THEN
            RunResult(f, w \cup {WarnNoData}, "none", NoCall, NoReturn, history)
        ELSE
            LET g == get_ai_response(d, query, history, o)
            IN  RunResult(f, w, IF g.raised THEN "AgentSetupError" ELSE "none",
                          g.call, g.ret, g.chat_history)

\* main() with the selectbox at `role`, the text_input at `query` and the
\* button pressed or not: line 181 filters the loaded table d, lines
\* 195-205 decide whether the agent is asked.
ScriptRun(d, role, query, clicked, history, o) ==
    LET f == filter_data_by_role(d, role)
        w == IF f.warned THEN {WarnBadRole} ELSE {}
    IN  IF f.raised THEN
            \* the KeyError of line 181 ends the run
            RunResult(f, {}, "KeyError", NoCall, NoReturn, history)
        ELSE IF ~clicked THEN
            RunResult(f, w, "none", NoCall, NoReturn, history)
        ELSE IF query = "" THEN
            RunResult(f, w \cup {WarnNoQuery}, "none", NoCall, NoReturn, history)
        ELSE IF empty(f.df) THEN
            RunResult(f, w \cup {WarnNoData}, "none", NoCall, NoReturn, history)
        ELSE
            LET g == get_ai_response(f.df, query, history, o)
            IN  RunResult(f, w, IF g.raised THEN "AgentSetupError" ELSE "none",
                          g.call, g.ret, g.chat_history)

---------------------------------------------------------------------------
(* The tables of the sessions explored *)

\* Rows 1-3: grade 8/8A/North, grade 9/9B/South, grade 8 with no class and
\* no region recorded.
MixedCells ==
    << [quiz_date |-> Str("2025-07-01"), grade |-> Num(8),
        class |-> Str("8A"), region |-> Str("North")],
       [quiz_date |-> Str("2025-07-01"), grade |-> Num(9),
        class |-> Str("9B"), region |-> Str("South")],
       [quiz_date |-> Str("2025-07-01"), grade |-> Num(8),
        class |-> NaNStr, region |-> NaNStr] >>

NinthCells ==
    << [quiz_date |-> Str("2025-07-01"), grade |-> Num(9),
        class |-> Str("9B"), region |-> Str("South")] >>

\* The cells of the columns C only: data.json without the other fields.
Project(cells, C) ==
    [i \in 1..Len(cells) |->
        [quiz_date |-> cells[i].quiz_date,
         grade  |-> IF "grade"  \in C THEN cells[i].grade  ELSE NaNNum,
         class  |-> IF "class"  \in C THEN cells[i].class  ELSE NaNStr,
         region |-> IF "region" \in C THEN cells[i].region ELSE NaNStr]]

SessionTables ==
    { DataFrame(C, Project(cells, C)) :
        <<C, cells>> \in (SUBSET FilterColumns) \X {MixedCells, NinthCells, <<>>} }

---------------------------------------------------------------------------
(* filter_data_by_role called on its own *)

FilterUnchanged  == UNCHANGED <<pc, in_df, in_role, out, out2>>
SessionUnchanged == UNCHANGED <<df, selected_role, user_query, chat_history,
                                button, filtered_df, warnings, exception,
                                agent_call, response, accepted>>

SessionIdle(d) ==
    /\ df = d
    /\ selected_role = "Super Admin"
    /\ user_query = ""
    /\ chat_history = <<>>
    /\ button = FALSE
    /\ filtered_df = filter_data_by_role(d, "Super Admin")
    /\ warnings = {}
    /\ exception = "none"
    /\ agent_call = NoCall
    /\ response = NoReturn
    /\ accepted = <<>>

InitFilter ==
    /\ pc = "start"
    /\ in_df \in LoadedTables(MaxRows)
    /\ in_role \in AdminRoles \cup OtherRoles
    /\ out = NoOutcome
    /\ out2 = NoOutcome
    /\ SessionIdle(EmptyDataFrame)

\* filter_data_by_role(in_df, in_role)
Call ==
    /\ pc = "start"
    /\ out' = filter_data_by_role(in_df, in_role)
    /\ pc' = "called"
    /\ UNCHANGED <<in_df, in_role, out2>>
    /\ SessionUnchanged

\* filter_data_by_role(filter_data_by_role(in_df, in_role), in_role): the
\* outer call runs on what the inner call returned; an exception of the
\* inner call is the outcome of the whole expression.
CallAgain ==
    /\ pc = "called"
    /\ out2' = IF out.raised THEN out ELSE filter_data_by_role(out.df, in_role)
    /\ pc' = "again"
    /\ UNCHANGED <<in_df, in_role, out>>
    /\ SessionUnchanged

NextFilter == Call \/ CallAgain

SpecFilter == InitFilter /\ [][NextFilter]_vars

---------------------------------------------------------------------------
(* The Streamlit session *)

\* The state after the first script run: the selectbox shows its first
\* option, the text_input is empty, the button was not pressed.
Init ==
    /\ pc = "session"
    /\ in_df = EmptyDataFrame
    /\ in_role = "Super Admin"
    /\ out = NoOutcome
    /\ out2 = NoOutcome
    /\ \E d \in SessionTables : SessionIdle(d)

\* Streamlit re-runs main() with the widgets' current values.
Rerun(role, query, clicked, o) ==
    LET r == ScriptRun(df, role, query, clicked, chat_history, o)
    IN  /\ selected_role' = role
        /\ user_query' = query
        /\ button' = clicked
        /\ filtered_df' = r.filtered_df
        /\ warnings' = r.warnings
        /\ exception' = r.exception
        /\ agent_call' = r.agent_call
        /\ response' = r.response
        /\ chat_history' = r.chat_history
        /\ accepted' = IF r.response \in Answers
                       THEN Append(accepted, [role |-> role, query |-> query,
                                              answer |-> r.response])
                       ELSE accepted
        /\ UNCHANGED df
        /\ FilterUnchanged

\* The user picks a role in the sidebar selectbox.
SelectRole ==
    \E role \in AdminRoles \ {selected_role} :
        Rerun(role, user_query, FALSE, CHOOSE o \in AgentOutcomes : TRUE)

\* The user edits the question and leaves the text_input.
EnterQuery ==
    \E query \in (Queries \cup {""}) \ {user_query} :
        Rerun(selected_role, query, FALSE, CHOOSE o \in AgentOutcomes : TRUE)

\* The user presses "Get Answer".
GetAnswer ==
    /\ Len(chat_history) + 2 <= MaxHistory
    /\ \E o \in AgentOutcomes : Rerun(selected_role, user_query, TRUE, o)

Next == SelectRole \/ EnterQuery \/ GetAnswer

Spec == Init /\ [][Next]_vars

---------------------------------------------------------------------------
(* Properties of filter_data_by_role, checked under SpecFilter *)

RestrictedRoles == AdminRoles \ {"Super Admin"}

\* The predicate the documentation gives for a restricted role.
Visible(r, role) ==
    CASE role = "Grade 8 Admin"      -> r.grade = Num(8)
      [] role = "Grade 9 Admin"      -> r.grade = Num(9)
      [] role = "8A Class Admin"     -> r.class = Str("8A")
      [] role = "North Region Admin" -> r.region = Str("North")

RowSet(d) == {d.rows[i] : i \in 1..Len(d.rows)}

\* C1: for a restricted role, what filter_data_by_role returns holds exactly
\* the input rows that satisfy the role's predicate: every output row is an
\* input row, cell for cell, that satisfies it; every input row that
\* satisfies it is in the output, once.
C1_SoundAndComplete ==
    (pc # "start" /\ in_role \in RestrictedRoles /\ ~out.raised) =>
        /\ out.df.columns = in_df.columns
        /\ \A r \in RowSet(out.df) : r \in RowSet(in_df) /\ Visible(r, in_role)
        /\ \A r \in RowSet(in_df) : Visible(r, in_role) => r \in RowSet(out.df)
        /\ Len(out.df.rows) = Cardinality(RowSet(out.df))

\* C1 witness: a restricted role kept one row and dropped another whose cell
\* in the filtered column is NaN.
C1_Witness ==
    /\ pc = "called" /\ in_role = "8A Class Admin" /\ ~out.raised
    /\ Len(out.df.rows) = 1
    /\ \E r \in RowSet(in_df) : r.class = NaNStr /\ r \notin RowSet(out.df)

\* C2: for 'Super Admin' the function returns its input: the same columns
\* and the same rows with the same cells in the same order, no warning.
C2_SuperAdminIdentity ==
    (pc # "start" /\ in_role = "Super Admin") =>
        ~out.raised /\ ~out.warned /\ out.df = in_df

\* C2 witness: 'Super Admin' applied to a table of two different rows that
\* has no grade column.
C2_Witness ==
    /\ pc = "called" /\ in_role = "Super Admin"
    /\ Len(in_df.rows) >= 2 /\ in_df.rows[1].class # in_df.rows[2].class
    /\ "grade" \notin in_df.columns
    /\ Len(out.df.rows) = Len(in_df.rows)

\* C3: for a role outside the five the function returns normally, with a
\* warning and a table of zero rows, whatever the input table.
C3_UnknownRoleEmpty ==
    (pc # "start" /\ in_role \notin AdminRoles) =>
        ~out.raised /\ out.warned /\ Len(out.df.rows) = 0

\* C3 witness: an unknown role applied to a table that has rows.
C3_Witness ==
    /\ pc = "called" /\ in_role \notin AdminRoles
    /\ Len(in_df.rows) > 0 /\ out.warned /\ empty(out.df)

\* C7: filter_data_by_role returns a table for every role and every table
\* the loader can produce; it never raises.
C7_Total == pc # "start" => ~out.raised

\* C8: filtering the result of filter_data_by_role(T, R) by R again gives
\* the same outcome: the same rows, cells and order.
C8_Idempotent ==
    pc = "again" => out2.raised = out.raised /\ out2.df = out.df

\* C8 witness: a restricted role was applied twice to a table from which
\* the first application removed a row and kept another.
C8_Witness ==
    /\ pc = "again" /\ in_role \in RestrictedRoles /\ ~out.raised
    /\ Len(out.df.rows) >= 1
    /\ Len(out.df.rows) < Len(in_df.rows)
    /\ ~out2.raised

---------------------------------------------------------------------------
(* Properties of the session, checked under Spec *)

IsPrefix(s, t) == Len(s) <= Len(t) /\ \A i \in 1..Len(s) : s[i] = t[i]

\* The messages of a sequence of answered turns.
Messages(turns) ==
    [i \in 1..(2 * Len(turns)) |->
        IF i % 2 = 1 THEN HumanMessage(turns[(i + 1) \div 2].query)
                     ELSE AIMessage(turns[i \div 2].answer)]

\* The last script run asked the agent.
Asked == button /\ agent_call.invoked

\* C4: whenever the agent is invoked it is given the loaded table filtered
\* for the role selected at that submission; under a restricted role every
\* row it is given satisfies that role's predicate.
C4_AgentGetsFilteredTable ==
    agent_call.invoked =>
        /\ ~filter_data_by_role(df, selected_role).raised
        /\ agent_call.df = filter_data_by_role(df, selected_role).df
        /\ selected_role \in RestrictedRoles =>
              \A r \in RowSet(agent_call.df) : Visible(r, selected_role)

\* C4 witness: the agent is asked under a restricted role that hides rows,
\* after a turn answered under a role that sees a different table.
C4_Witness ==
    /\ Asked /\ selected_role \in RestrictedRoles
    /\ agent_call.df # df
    /\ \E i \in 1..Len(accepted) :
          /\ accepted[i].role # selected_role
          /\ filter_data_by_role(df, accepted[i].role).df # agent_call.df

\* C5: chat_history only grows at its end, and a call of get_ai_response
\* that returns the agent's answer a to query q leaves the history it found
\* followed by q and a.
C5_AppendOnly ==
    [][ /\ IsPrefix(chat_history, chat_history')
        /\ response' \in Answers =>
              chat_history' = chat_history \o
                  <<HumanMessage(user_query'), AIMessage(response')>>
      ]_vars

\* C5 witness: a second turn has been answered on top of the first.
C5_Witness ==
    /\ Asked /\ response \in Answers
    /\ Len(accepted) = 2 /\ accepted[1].query # accepted[2].query
    /\ Len(chat_history) = 4

\* C6: a query turn that fails leaves chat_history as it was, and
\* get_ai_response returns the error text instead of raising.
C6_FailedTurn ==
    [][ (button' /\ user_query' # "" /\ ~filtered_df'.raised
         /\ ~empty(filtered_df'.df) /\ response' \notin Answers) =>
            /\ chat_history' = chat_history
            /\ exception' = "none"
            /\ response' = ErrorText
      ]_vars

C10_SessionScopedHistory ==
    [][ /\ selected_role' # selected_role => chat_history' = chat_history
        /\ chat_history' = Messages(accepted')
        /\ agent_call'.invoked => agent_call'.chat_history = Messages(accepted)
      ]_vars

=============================================================================
